---------------------------- MODULE Spec2Model ----------------------------
(***************************************************************************)
(* A model of mcp_server.py, the tool gateway that exposes the Qarnot      *)
(* platform's tasks and buckets as eight MCP tools.                        *)
(*                                                                         *)
(* The gateway's own state is the module global QARNOT_TOKEN and the       *)
(* position of the process (booting, failed, serving, inside cancel_task). *)
(* The remote platform (tasks, buckets) and the local file system are the  *)
(* environment the tools read and write.  Every tool invocation leaves a   *)
(* record of its arguments, of the SDK calls it made and of what it        *)
(* returned or raised.                                                     *)
(***************************************************************************)
EXTENDS Naturals, Sequences, FiniteSets

(***************************************************************************)
(* Python values                                                           *)
(***************************************************************************)
\* None, and a value that is not None.
PyNone == [none |-> TRUE]
Some(x) == [none |-> FALSE, v |-> x]

\* Truth value of an optional string: None and "" are falsy.
TruthyStr(o) == (~o.none) /\ (o.v # "")

\* str(x) of a non-string object (a datetime, a timedelta).
Str(x) == <<"str", x>>

\* What json.dumps makes of an optional string: null, or the string.
JsonNull == [json |-> "null"]
JsonOpt(o) == IF o.none THEN JsonNull ELSE [json |-> "string", s |-> o.v]

\* What json.dumps makes of a str, of a dict, and of a list of either.
JsonString(x) == [json |-> "string", s |-> x]
JsonObject(d) == [json |-> "object", members |-> d]
JsonStrings(xs) == [i \in 1..Len(xs) |-> JsonString(xs[i])]
JsonObjects(ds) == [i \in 1..Len(ds) |-> JsonObject(ds[i])]

\* json.dumps(doc, indent=2)
IndentWidth == 2
JsonDumps(doc) == [fmt |-> "json", indent |-> IndentWidth, doc |-> doc]

\* A plain string result, as the sequence of the pieces of its f-string.
Text(pieces) == [fmt |-> "text", pieces |-> pieces]

Returned(body) == [kind |-> "return", body |-> body]
Raised(err) == [kind |-> "raise", err |-> err]

(***************************************************************************)
(* Bounds of the model                                                     *)
(***************************************************************************)
MaxTasks == 2
MaxBuckets == 2
MaxInstances == 2

(***************************************************************************)
(* The remote platform                                                     *)
(***************************************************************************)
\* The uuids the platform hands out, in the order conn.tasks() lists them.
TaskUuid == <<"t1", "t2", "t3", "t4">>
TaskIds == {TaskUuid[i] : i \in 1..MaxTasks}
UnknownUuid == "t-unknown"
UuidArgs == TaskIds \cup {UnknownUuid}

ActiveStates == {"Submitted", "FullyExecuting"}
PlatformTerminal == {"Cancelled", "Success", "Failure"}
TaskStates == ActiveStates \cup PlatformTerminal

InstanceIds == 0..(MaxInstances - 1)

VARIABLES
    osEnv,          \* QARNOT_TOKEN in the process environment at exec (optional)
    dotenvFile,     \* QARNOT_TOKEN in the .env file (optional)
    QARNOT_TOKEN,   \* the module global, None until line 11 has run
    pc,             \* "boot", "failed", "serving", "cancel_retrieved"
    tasks,          \* the uuids of the account's tasks, in platform order
    taskState,      \* remote state of each task
    buckets,        \* the account's bucket ids, in platform order
    localFS,        \* local path -> optional bytes
    connTokens,     \* the client_token of every Connection opened so far
    last            \* the current or last tool invocation

vars == <<osEnv, dotenvFile, QARNOT_TOKEN, pc, tasks, taskState, buckets,
          localFS, connTokens, last>>

\* Attributes of a remote task that the tools surface.
TaskName(u) == <<"job-", u>>
TaskProgress(s) ==
    IF s = "Submitted" THEN 0 ELSE IF s = "FullyExecuting" THEN 50 ELSE 100
TaskInstanceCount(u) == MaxInstances
TaskRunningInstances(s) == IF s = "FullyExecuting" THEN MaxInstances ELSE 0
TaskCreationDate(u) == <<"created", u>>
\* The platform stamps an end date when the task reaches a final state.
TaskEndDate(u, s) == IF s \in PlatformTerminal THEN Some(<<"ended", u>>) ELSE PyNone

\* The Task object the SDK returns for uuid u when its remote state is s.
TaskObject(u, s) ==
    [uuid |-> u, name |-> TaskName(u), state |-> s,
     progress |-> TaskProgress(s),
     instancecount |-> TaskInstanceCount(u),
     running_instance_count |-> TaskRunningInstances(s),
     running_core_count |-> TaskRunningInstances(s),
     execution_time |-> <<"exec", TaskProgress(s)>>,
     wall_time |-> <<"wall", TaskProgress(s)>>,
     creation_date |-> TaskCreationDate(u),
     end_date |-> TaskEndDate(u, s)]

InTasks(u) == \E i \in 1..Len(tasks) : tasks[i] = u

\* conn.tasks(): every task of the account, in platform order.
ConnTasks == [i \in 1..Len(tasks) |-> TaskObject(tasks[i], taskState[tasks[i]])]

\* Buckets and their files.  The first bucket is empty, the n-th holds the
\* first n-1 keys.
BucketName == <<"b1", "b2", "b3", "b4">>
FileKeys == <<"out/result.vtk", "log.txt", "mesh.msh">>
BucketIds == {BucketName[i] : i \in 1..MaxBuckets}
UnknownBucket == "b-unknown"
BucketArgs == BucketIds \cup {UnknownBucket}
InBuckets(b) == \E i \in 1..Len(buckets) : buckets[i] = b
BucketIndex(b) == CHOOSE i \in 1..Len(BucketName) : BucketName[i] = b
\* bucket.list_files(): the File objects of the bucket.
ListFiles(b) == [j \in 1..(BucketIndex(b) - 1) |-> [key |-> FileKeys[j]]]
HasFile(b, k) == \E j \in 1..Len(ListFiles(b)) : ListFiles(b)[j].key = k
FileBytes(b, k) == <<"bytes", b, k>>
RemotePaths == {FileKeys[1], "missing.dat"}

\* The local file system: one directory that can be written, one that cannot.
LocalPaths == {"/home/user/result.vtk", "/readonly/result.vtk"}
Writable(p) == p = "/home/user/result.vtk"

(***************************************************************************)
(* Startup (lines 9-16)                                                    *)
(***************************************************************************)
\* How the process may be started: the variable absent, empty or set in the
\* environment; with or without a .env file that sets it.
StartEnvironments ==
    {<<PyNone, PyNone>>, <<Some(""), Some("tokB")>>,
     <<PyNone, Some("tokB")>>, <<Some("tokA"), Some("tokB")>>}
NoInvocation == [op |-> "none", args |-> <<>>, calls |-> <<>>, view |-> <<>>,
                 result |-> [kind |-> "none"]]

Init ==
    /\ \E e \in StartEnvironments : osEnv = e[1] /\ dotenvFile = e[2]
    /\ QARNOT_TOKEN = PyNone
    /\ pc = "boot"
    /\ tasks = <<>>
    /\ taskState = [u \in TaskIds |-> "Submitted"]
    /\ buckets = <<>>
    /\ localFS = [p \in LocalPaths |-> PyNone]
    /\ connTokens = {}
    /\ last = NoInvocation

\* load_dotenv(): a variable of the .env file is set in os.environ unless
\* the environment already defines it (override is off by default).
LoadDotenv(environ, file) == IF environ.none THEN file ELSE environ

\* os.getenv("QARNOT_TOKEN") after load_dotenv().
Getenv == LoadDotenv(osEnv, dotenvFile)

\* Variant: only a missing variable is rejected, an empty one is accepted.
TokenRejectedNoneOnly(tok) == tok.none

\* if not QARNOT_TOKEN: raise ValueError(...)
TokenRejected(tok) == ~TruthyStr(tok)

Startup ==
    /\ pc = "boot"
    /\ QARNOT_TOKEN' = Getenv
    /\ pc' = IF TokenRejected(Getenv) THEN "failed" ELSE "serving"
    /\ UNCHANGED <<osEnv, dotenvFile, tasks, taskState, buckets, localFS,
                   connTokens, last>>

\* get_connection(): Connection(client_token=QARNOT_TOKEN)
ConnectionToken == QARNOT_TOKEN
GetConnection == connTokens' = connTokens \cup {ConnectionToken}

\* A tool is dispatched only by the running server, one invocation at a time.
Dispatch == pc = "serving"

Invocation(op, args, calls, view, result) ==
    [op |-> op, args |-> args, calls |-> calls, view |-> view, result |-> result]

(***************************************************************************)
(* list_tasks (lines 23-43)                                                *)
(***************************************************************************)
\* Variant: the end date is rendered with str() even when it is None.
EndDateFieldAlwaysStr(t) == Str(t.end_date)

EndDateField(t) == IF ~t.end_date.none THEN Str(t.end_date.v) ELSE "N/A"

TaskSummary(t) ==
    [uuid |-> t.uuid,
     name |-> t.name,
     state |-> t.state,
     progress |-> <<t.progress, "%">>,
     instance_count |-> t.instancecount,
     running_instances |-> t.running_instance_count,
     creation_date |-> Str(t.creation_date),
     end_date |-> EndDateField(t)]

ListTasksResult(ts) ==
    LET result == [i \in 1..Len(ts) |-> TaskSummary(ts[i])] IN
    JsonDumps(JsonObjects(result))

list_tasks ==
    /\ Dispatch
    /\ GetConnection
    /\ last' = Invocation("list_tasks", <<>>, <<[m |-> "tasks"]>>, ConnTasks,
                          Returned(ListTasksResult(ConnTasks)))
    /\ UNCHANGED <<osEnv, dotenvFile, QARNOT_TOKEN, pc, tasks, taskState,
                   buckets, localFS>>

(***************************************************************************)
(* get_task_status (lines 46-89)                                           *)
(***************************************************************************)
SshPort == 22

Forward(app, host, port) ==
    [application_port |-> app, forwarder_host |-> host, forwarder_port |-> port]
Instance(id, fwds) == [instance_id |-> id, active_forwards |-> fwds]
StatusWith(insts) ==
    Some([running_instances_info |-> Some([per_running_instance_info |-> insts])])

SshForward == Forward(22, "fwd.qarnot.net", 2222)
WebForward == Forward(8080, "fwd.qarnot.net", 8443)

\* What task.status may hold after the refresh: nothing, no running-instance
\* info, instances without forwards, instances with forwards.
ForwardLists == {<<>>, <<SshForward>>, <<WebForward>>, <<SshForward, WebForward>>}
StatusShapes ==
    {PyNone,
     Some([running_instances_info |-> PyNone]),
     StatusWith(<<>>)}
    \cup {StatusWith(<<Instance(0, f)>>) : f \in ForwardLists}
    \cup {StatusWith([i \in 1..MaxInstances |->
                        Instance(i - 1, IF i = 1 THEN <<>> ELSE f)]) :
            f \in ForwardLists \ {<<>>}}

\* Variant: the ssh hint is built for every forward, whatever its port.
SshCommandAnyPort(fwd) ==
    Some(<<"ssh -p ", fwd.forwarder_port, " user@", fwd.forwarder_host>>)

SshCommand(fwd) ==
    IF fwd.application_port = SshPort
    THEN Some(<<"ssh -p ", fwd.forwarder_port, " user@", fwd.forwarder_host>>)
    ELSE PyNone

ForwardDescriptor(inst, fwd) ==
    [instance_id |-> inst.instance_id,
     app_port |-> fwd.application_port,
     host |-> fwd.forwarder_host,
     port |-> fwd.forwarder_port,
     ssh_command |-> JsonOpt(SshCommand(fwd))]

InstanceForwards(inst) ==
    [j \in 1..Len(inst.active_forwards) |->
        ForwardDescriptor(inst, inst.active_forwards[j])]

RECURSIVE AllForwards(_)
AllForwards(insts) ==
    IF insts = <<>> THEN <<>>
    ELSE InstanceForwards(Head(insts)) \o AllForwards(Tail(insts))

\* Lines 58-71: ssh_info.
SshInfo(status) ==
    IF ~status.none
    THEN LET running_info == status.v.running_instances_info IN
         IF ~running_info.none
         THEN AllForwards(running_info.v.per_running_instance_info)
         ELSE <<>>
    ELSE <<>>

SshConnectionsField(ssh_info) ==
    IF ssh_info # <<>> THEN ssh_info ELSE "No active SSH forwards"

GetTaskStatusResult(t, status) ==
    JsonDumps(JsonObject(
        [uuid |-> t.uuid,
         name |-> t.name,
         state |-> t.state,
         progress |-> <<t.progress, "%">>,
         instance_count |-> t.instancecount,
         running_instances |-> t.running_instance_count,
         running_cores |-> t.running_core_count,
         execution_time |-> Str(t.execution_time),
         wall_time |-> Str(t.wall_time),
         creation_date |-> Str(t.creation_date),
         end_date |-> EndDateField(t),
         ssh_connections |-> SshConnectionsField(SshInfo(status))]))

\* conn.retrieve_task(uuid) raises when the platform knows no such task.
MissingTask == "MissingTaskException"

\* Variant: the status tool stops every task while it refreshes.
GetTaskStatusAborting(uuid, status) ==
    /\ Dispatch
    /\ GetConnection
    /\ last' = Invocation("get_task_status", [uuid |-> uuid],
                          <<[m |-> "retrieve_task", uuid |-> uuid]>>,
                          status, Raised(MissingTask))
    /\ taskState' = [u \in TaskIds |->
                       IF taskState[u] \in ActiveStates THEN "Cancelled"
                       ELSE taskState[u]]
    /\ UNCHANGED <<osEnv, dotenvFile, QARNOT_TOKEN, pc, tasks, buckets, localFS>>

GetTaskStatus(uuid, status) ==
    /\ Dispatch
    /\ GetConnection
    /\ last' =
         IF InTasks(uuid)
         THEN Invocation("get_task_status", [uuid |-> uuid],
                         <<[m |-> "retrieve_task", uuid |-> uuid],
                           [m |-> "update", flushcache |-> TRUE]>>,
                         status,
                         Returned(GetTaskStatusResult(
                                    TaskObject(uuid, taskState[uuid]), status)))
         ELSE Invocation("get_task_status", [uuid |-> uuid],
                         <<[m |-> "retrieve_task", uuid |-> uuid]>>,
                         PyNone, Raised(MissingTask))
    /\ UNCHANGED <<osEnv, dotenvFile, QARNOT_TOKEN, pc, tasks, taskState,
                   buckets, localFS>>

get_task_status == \E uuid \in UuidArgs, status \in StatusShapes :
                        GetTaskStatus(uuid, status)

(***************************************************************************)
(* get_task_stdout, get_task_stderr (lines 92-119)                         *)
(***************************************************************************)
\* What the platform may have captured: nothing, the empty string, some
\* text, and text that reads like the placeholders.
Captures(placeholder) ==
    {PyNone, Some(""), Some("step 1 done"), Some(placeholder)}
InstanceArgs == {PyNone} \cup {Some(i) : i \in InstanceIds}

\* Variant: "if instance_id" instead of "is not None": instance 0 is unscoped.
ScopedReadTruthy(instance_id) == (~instance_id.none) /\ (instance_id.v # 0)

\* instance_id is not None
ScopedRead(instance_id) == ~instance_id.none

\* task.stdout(instance_id) if instance_id is not None else task.stdout()
StreamCall(stream, instance_id) ==
    IF ScopedRead(instance_id)
    THEN [m |-> stream, scoped |-> TRUE, instance |-> instance_id.v]
    ELSE [m |-> stream, scoped |-> FALSE]

\* stdout or "(no output)"
OrPlaceholder(capture, placeholder) ==
    IF TruthyStr(capture) THEN capture.v ELSE placeholder

StreamTool(op, stream, placeholder, uuid, instance_id, capture) ==
    /\ Dispatch
    /\ GetConnection
    /\ last' =
         IF InTasks(uuid)
         THEN Invocation(op, [uuid |-> uuid, instance_id |-> instance_id],
                         <<[m |-> "retrieve_task", uuid |-> uuid],
                           StreamCall(stream, instance_id)>>,
                         capture,
                         Returned(Text(<<OrPlaceholder(capture, placeholder)>>)))
         ELSE Invocation(op, [uuid |-> uuid, instance_id |-> instance_id],
                         <<[m |-> "retrieve_task", uuid |-> uuid]>>,
                         PyNone, Raised(MissingTask))
    /\ UNCHANGED <<osEnv, dotenvFile, QARNOT_TOKEN, pc, tasks, taskState,
                   buckets, localFS>>

get_task_stdout ==
    \E uuid \in UuidArgs, instance_id \in InstanceArgs, capture \in Captures("(no output)") :
        StreamTool("get_task_stdout", "stdout", "(no output)",
                   uuid, instance_id, capture)

get_task_stderr ==
    \E uuid \in UuidArgs, instance_id \in InstanceArgs, capture \in Captures("(no error output)") :
        StreamTool("get_task_stderr", "stderr", "(no error output)",
                   uuid, instance_id, capture)

(***************************************************************************)
(* cancel_task (lines 122-136)                                             *)
(*                                                                         *)
(* retrieve_task and abort are two requests to the platform; the platform  *)
(* may move the task between them.                                         *)
(***************************************************************************)
\* Variant: the list of final states lacks "Failure".
TerminalStatesWithoutFailure == {"Cancelled", "Success"}
TerminalStates == {"Cancelled", "Success", "Failure"}

\* Variant: only a cancelled task counts as final.
IsTerminalCancelledOnly(state) == state = "Cancelled"

\* task.state in ["Cancelled", "Success", "Failure"]
IsTerminal(state) == state \in TerminalStates

AlreadyTerminalMessage(uuid, state) ==
    Text(<<"Task ", uuid, " is already in state '", state,
           "' and cannot be cancelled.">>)
CancelledMessage(uuid) == Text(<<"Task ", uuid, " has been cancelled.">>)

\* Lines 129-133: retrieve the task and stop there when its state is final.
CancelRetrieve(uuid) ==
    /\ Dispatch
    /\ GetConnection
    /\ LET args == [uuid |-> uuid]
           calls == <<[m |-> "retrieve_task", uuid |-> uuid]>>
       IN  IF ~InTasks(uuid)
           THEN /\ last' = Invocation("cancel_task", args, calls, PyNone,
                                      Raised(MissingTask))
                /\ pc' = pc
           ELSE LET task == TaskObject(uuid, taskState[uuid]) IN
                IF IsTerminal(task.state)
                THEN /\ last' = Invocation("cancel_task", args, calls, Some(task),
                                   Returned(AlreadyTerminalMessage(uuid, task.state)))
                     /\ pc' = pc
                ELSE /\ last' = Invocation("cancel_task", args, calls, Some(task),
                                           [kind |-> "pending"])
                     /\ pc' = "cancel_retrieved"
    /\ UNCHANGED <<osEnv, dotenvFile, QARNOT_TOKEN, tasks, taskState, buckets,
                   localFS>>

\* The platform's answer to an abort request: an active task becomes
\* Cancelled; a task that has already ended stays as it is.
AbortEffect(state) == IF state \in ActiveStates THEN "Cancelled" ELSE state
AbortError == "QarnotGenericException"

\* Variant: the abort request is sent a second time after the first.
CancelAbortRetrying(ok) ==
    /\ pc = "cancel_retrieved"
    /\ LET uuid == last.args.uuid
           call == [m |-> "abort", uuid |-> uuid, remote_state |-> taskState[uuid]]
           again == [call EXCEPT !.remote_state = AbortEffect(@)]
       IN  /\ last' = [last EXCEPT
                         !.calls = Append(Append(@, call), again),
                         !.result = IF ok THEN Returned(CancelledMessage(uuid))
                                    ELSE Raised(AbortError)]
           /\ taskState' = IF ok
                           THEN [taskState EXCEPT ![uuid] = AbortEffect(@)]
                           ELSE taskState
    /\ pc' = "serving"
    /\ UNCHANGED <<osEnv, dotenvFile, QARNOT_TOKEN, tasks, buckets, localFS,
                   connTokens>>

\* Lines 135-136: task.abort() and the confirmation.  The request may fail
\* (network, platform refusal), and the error is not caught.
CancelAbort(ok) ==
    /\ pc = "cancel_retrieved"
    /\ LET uuid == last.args.uuid
           call == [m |-> "abort", uuid |-> uuid, remote_state |-> taskState[uuid]]
       IN  /\ last' = [last EXCEPT
                         !.calls = Append(@, call),
                         !.result = IF ok THEN Returned(CancelledMessage(uuid))
                                    ELSE Raised(AbortError)]
           /\ taskState' = IF ok
                           THEN [taskState EXCEPT ![uuid] = AbortEffect(@)]
                           ELSE taskState
    /\ pc' = "serving"
    /\ UNCHANGED <<osEnv, dotenvFile, QARNOT_TOKEN, tasks, buckets, localFS,
                   connTokens>>

cancel_task ==
    \/ \E uuid \in UuidArgs : CancelRetrieve(uuid)
    \/ \E ok \in BOOLEAN : CancelAbort(ok)

(***************************************************************************)
(* list_buckets, list_bucket_files (lines 139-167)                         *)
(***************************************************************************)
\* conn.buckets(): the Bucket objects of the account, in platform order.
ConnBuckets == [i \in 1..Len(buckets) |-> [uuid |-> buckets[i]]]

BucketEntry(bucket) == [name |-> bucket.uuid]

ListBucketsResult(bs) ==
    LET result == [i \in 1..Len(bs) |-> BucketEntry(bs[i])] IN
    IF result # <<>> THEN JsonDumps(JsonObjects(result))
    ELSE Text(<<"No buckets found.">>)

list_buckets ==
    /\ Dispatch
    /\ GetConnection
    /\ last' = Invocation("list_buckets", <<>>, <<[m |-> "buckets"]>>,
                          ConnBuckets, Returned(ListBucketsResult(ConnBuckets)))
    /\ UNCHANGED <<osEnv, dotenvFile, QARNOT_TOKEN, pc, tasks, taskState,
                   buckets, localFS>>

\* Variant: the list is dumped even when it is empty.
ListBucketFilesResultNoPlaceholder(fs) ==
    JsonDumps(JsonStrings([j \in 1..Len(fs) |-> fs[j].key]))

ListBucketFilesResult(fs) ==
    LET files == [j \in 1..Len(fs) |-> fs[j].key] IN
    IF files # <<>> THEN JsonDumps(JsonStrings(files))
    ELSE Text(<<"No files in bucket.">>)

\* The platform's error for a bucket it does not know.
MissingBucket == "MissingBucketException"

ListBucketFiles(bucket_name) ==
    /\ Dispatch
    /\ GetConnection
    /\ last' =
         IF InBuckets(bucket_name)
         THEN Invocation("list_bucket_files", [bucket_name |-> bucket_name],
                         <<[m |-> "retrieve_bucket", name |-> bucket_name],
                           [m |-> "list_files"]>>,
                         ListFiles(bucket_name),
                         Returned(ListBucketFilesResult(ListFiles(bucket_name))))
         ELSE Invocation("list_bucket_files", [bucket_name |-> bucket_name],
                         <<[m |-> "retrieve_bucket", name |-> bucket_name]>>,
                         <<>>, Raised(MissingBucket))
    /\ UNCHANGED <<osEnv, dotenvFile, QARNOT_TOKEN, pc, tasks, taskState,
                   buckets, localFS>>

list_bucket_files == \E bucket_name \in BucketArgs : ListBucketFiles(bucket_name)

(***************************************************************************)
(* download_result (lines 170-183)                                         *)
(***************************************************************************)
MissingFile == "MissingFileException"
NotWritable == "PermissionError"

\* What bucket.get_file(remote_path, local_path) can raise.  When the file
\* is missing and the path cannot be written either, the SDK decides which.
GetFileErrors(bucket_name, remote_path, local_path) ==
    (IF HasFile(bucket_name, remote_path) THEN {} ELSE {MissingFile})
    \cup (IF Writable(local_path) THEN {} ELSE {NotWritable})

\* Variant: the confirmation does not name the local path.
DownloadedMessageWithoutLocal(bucket_name, remote_path, local_path) ==
    Text(<<"Downloaded '", remote_path, "' from '", bucket_name, "'">>)

DownloadedMessage(bucket_name, remote_path, local_path) ==
    Text(<<"Downloaded '", remote_path, "' from '", bucket_name, "' to '",
           local_path, "'">>)

DownloadResult(bucket_name, remote_path, local_path) ==
    /\ Dispatch
    /\ GetConnection
    /\ LET args == [bucket_name |-> bucket_name, remote_path |-> remote_path,
                    local_path |-> local_path]
           retrieve == [m |-> "retrieve_bucket", name |-> bucket_name]
           get_file == [m |-> "get_file", remote |-> remote_path,
                        local |-> local_path]
           errors == GetFileErrors(bucket_name, remote_path, local_path)
       IN  IF ~InBuckets(bucket_name)
           THEN /\ last' = Invocation("download_result", args, <<retrieve>>,
                                      <<>>, Raised(MissingBucket))
                /\ localFS' = localFS
           ELSE IF errors # {}
           THEN /\ \E err \in errors :
                      last' = Invocation("download_result", args,
                                         <<retrieve, get_file>>, <<>>, Raised(err))
                /\ localFS' = localFS
           ELSE /\ last' = Invocation("download_result", args,
                             <<retrieve, get_file>>,
                             FileBytes(bucket_name, remote_path),
                             Returned(DownloadedMessage(bucket_name, remote_path,
                                                        local_path)))
                /\ localFS' = [localFS EXCEPT ![local_path] =
                                 Some(FileBytes(bucket_name, remote_path))]
    /\ UNCHANGED <<osEnv, dotenvFile, QARNOT_TOKEN, pc, tasks, taskState,
                   buckets>>

download_result ==
    \E bucket_name \in BucketArgs, remote_path \in RemotePaths,
       local_path \in LocalPaths :
        DownloadResult(bucket_name, remote_path, local_path)

(***************************************************************************)
(* The platform's own moves: tasks are submitted, start, and end; buckets  *)
(* are created.  None of them is made by the gateway.                      *)
(***************************************************************************)
PlatformSubmit ==
    /\ Len(tasks) < MaxTasks
    /\ tasks' = Append(tasks, TaskUuid[Len(tasks) + 1])
    /\ UNCHANGED <<osEnv, dotenvFile, QARNOT_TOKEN, pc, taskState, buckets,
                   localFS, connTokens, last>>

PlatformAdvance ==
    /\ \E u \in TaskIds, s \in TaskStates :
          /\ InTasks(u)
          /\ \/ taskState[u] = "Submitted" /\ s \in {"FullyExecuting", "Cancelled"}
             \/ taskState[u] = "FullyExecuting" /\ s \in PlatformTerminal
          /\ taskState' = [taskState EXCEPT ![u] = s]
    /\ UNCHANGED <<osEnv, dotenvFile, QARNOT_TOKEN, pc, tasks, buckets,
                   localFS, connTokens, last>>

PlatformCreateBucket ==
    /\ Len(buckets) < MaxBuckets
    /\ buckets' = Append(buckets, BucketName[Len(buckets) + 1])
    /\ UNCHANGED <<osEnv, dotenvFile, QARNOT_TOKEN, pc, tasks, taskState,
                   localFS, connTokens, last>>

(***************************************************************************)
(* Specifications                                                          *)
(*                                                                         *)
(* Spec is the whole gateway: every tool, with the platform moving in      *)
(* between.  There the arguments of the read-only task tools and the       *)
(* platform's answers to them (status shapes, captures) are drawn from a   *)
(* few representatives; the specifications of the single tool families     *)
(* draw them from the full sets.                                           *)
(***************************************************************************)
SomeUuids == {TaskUuid[1], UnknownUuid}
SomeShapes == {StatusWith(<<Instance(0, <<SshForward>>)>>)}
SomeCaptures == {Some("step 1 done")}
SomeInstanceArgs == {Some(0)}

Next ==
    \/ Startup
    \/ list_tasks
    \/ \E uuid \in SomeUuids, status \in SomeShapes : GetTaskStatus(uuid, status)
    \/ \E uuid \in SomeUuids, instance_id \in SomeInstanceArgs,
          capture \in SomeCaptures :
          StreamTool("get_task_stdout", "stdout", "(no output)",
                     uuid, instance_id, capture)
    \/ \E uuid \in SomeUuids, instance_id \in SomeInstanceArgs,
          capture \in SomeCaptures :
          StreamTool("get_task_stderr", "stderr", "(no error output)",
                     uuid, instance_id, capture)
    \/ cancel_task
    \/ list_buckets
    \/ list_bucket_files
    \/ download_result
    \/ PlatformSubmit
    \/ PlatformAdvance
    \/ PlatformCreateBucket

Spec == Init /\ [][Next]_vars

\* cancel_task against a platform whose tasks are submitted, run and end.
NextCancel == Startup \/ cancel_task \/ PlatformSubmit \/ PlatformAdvance
SpecCancel == Init /\ [][NextCancel]_vars

\* list_tasks and get_task_status.
NextTasks ==
    Startup \/ list_tasks \/ get_task_status \/ PlatformSubmit \/ PlatformAdvance
SpecTasks == Init /\ [][NextTasks]_vars

\* get_task_stdout and get_task_stderr.
NextStreams == Startup \/ get_task_stdout \/ get_task_stderr \/ PlatformSubmit
SpecStreams == Init /\ [][NextStreams]_vars

\* list_buckets, list_bucket_files and download_result.
NextStorage ==
    \/ Startup
    \/ list_buckets
    \/ list_bucket_files
    \/ download_result
    \/ PlatformCreateBucket
SpecStorage == Init /\ [][NextStorage]_vars

(***************************************************************************)
(* Properties                                                              *)
(***************************************************************************)
\* The final states the documentation names.
FinalStates == {"Cancelled", "Success", "Failure"}

Contains(text, piece) == \E i \in 1..Len(text) : text[i] = piece
AbortCalls == {i \in 1..Len(last.calls) : last.calls[i].m = "abort"}

\* A cancel_task invocation whose retrieve_task returned a task.
CancelRetrieved == last.op = "cancel_task" /\ ~last.view.none

\* C1: when retrieve_task returns a task whose state is Cancelled, Success or
\* Failure, cancel_task makes no abort call, does not raise, and returns a
\* message that contains that state string.
C1_TerminalShortCircuit ==
    (CancelRetrieved /\ last.view.v.state \in FinalStates) =>
        /\ AbortCalls = {}
        /\ pc # "cancel_retrieved"
        /\ last.result.kind = "return"
        /\ last.result.body.fmt = "text"
        /\ Contains(last.result.body.pieces, last.view.v.state)

C1_Witness ==
    /\ CancelRetrieved
    /\ last.view.v.state = "Failure"
    /\ last.result.kind = "return"
    /\ taskState[last.args.uuid] = "Failure"

\* C2: when retrieve_task returns a task whose state is none of the three,
\* one cancel_task invocation makes exactly one abort call (never a second
\* one) and, when abort succeeds, returns a confirmation that contains the
\* task uuid.
C2_AbortExactlyOnce ==
    /\ Cardinality(AbortCalls) <= 1
    /\ (CancelRetrieved /\ last.view.v.state \notin FinalStates) =>
          IF last.result.kind = "pending"
          THEN pc = "cancel_retrieved" /\ AbortCalls = {}
          ELSE /\ pc # "cancel_retrieved"
               /\ Cardinality(AbortCalls) = 1
               /\ last.calls[Len(last.calls)].uuid = last.args.uuid
               /\ last.result.kind = "return" =>
                    /\ last.result.body.fmt = "text"
                    /\ Contains(last.result.body.pieces, last.args.uuid)
                    /\ Contains(last.result.body.pieces, " has been cancelled.")

C2_Witness ==
    /\ CancelRetrieved
    /\ last.view.v.state = "FullyExecuting"
    /\ last.result.kind = "return"
    /\ Cardinality(AbortCalls) = 1
    /\ taskState[last.args.uuid] = "Cancelled"

\* The remote state an abort request found, and the state retrieved by the
\* invocation that sent it.
NoAbortOnFinalRemoteState ==
    \A i \in AbortCalls : last.calls[i].remote_state \notin FinalStates
NoAbortOnFinalRetrievedState ==
    AbortCalls # {} => CancelRetrieved /\ last.view.v.state \notin FinalStates
FinalStatesAreKept ==
    \A u \in TaskIds : taskState[u] \in FinalStates => taskState'[u] = taskState[u]

\* C10 as stated: no abort request reaches a task whose remote state is
\* final at the moment the request is issued, and no step moves a task out
\* of a final state.
C10_Original == [](NoAbortOnFinalRemoteState) /\ [][FinalStatesAreKept]_vars

\* C10, amended: no abort request is issued for a task whose state, as
\* retrieved by the same invocation, was final (the remote state may have
\* become final since the retrieval), and no step moves a task out of a
\* final state.
C10_Amended == [](NoAbortOnFinalRetrievedState) /\ [][FinalStatesAreKept]_vars

\* The task ended between retrieve_task and abort; the abort was sent and
\* the task kept its final state.
C10_Witness ==
    /\ CancelRetrieved
    /\ last.view.v.state = "FullyExecuting"
    /\ \E i \in AbortCalls : last.calls[i].remote_state = "Success"
    /\ taskState[last.args.uuid] = "Success"

\* The tools the documentation calls pure reads.
ReadTools == {"list_tasks", "get_task_status", "get_task_stdout",
              "get_task_stderr", "list_buckets", "list_bucket_files"}

\* A step of a tool: it leaves a new invocation record (the platform's own
\* steps leave the record alone).
ToolStep == last' # last

\* C3: only download_result writes to local storage, only cancel_task on a
\* task retrieved in a non-final state changes a remote task state, and the
\* six read tools leave the remote task states, the buckets and the local
\* file system unchanged.
C3_Frame ==
    [][/\ localFS' # localFS => ToolStep /\ last'.op = "download_result"
       /\ (ToolStep /\ taskState' # taskState) =>
             /\ last'.op = "cancel_task"
             /\ ~last'.view.none
             /\ last'.view.v.state \notin FinalStates
       /\ ToolStep => tasks' = tasks /\ buckets' = buckets
       /\ (ToolStep /\ last'.op \in ReadTools) =>
             /\ taskState' = taskState
             /\ localFS' = localFS]_vars

\* A read tool has run after a download wrote a file and a cancel_task
\* cancelled a task.
C3_Witness ==
    /\ last.op = "get_task_status"
    /\ last.result.kind = "return"
    /\ \E p \in LocalPaths : ~localFS[p].none
    /\ \E u \in TaskIds : taskState[u] = "Cancelled"
    /\ buckets # <<>>

\* The variable as the process sees it once the .env file has been loaded:
\* the file's value counts when the environment does not define the variable.
EffectiveToken == IF ~osEnv.none THEN osEnv ELSE dotenvFile

\* C9 as stated: with the variable absent or empty in the environment the
\* process was started with, the process fails before serving anything and
\* opens no connection; with it present, every connection uses its value.
C9_Original ==
    pc # "boot" =>
        IF osEnv.none \/ osEnv.v = ""
        THEN pc = "failed" /\ last = NoInvocation /\ connTokens = {}
        ELSE pc # "failed" /\ connTokens \subseteq {osEnv}

\* C9, amended: with the variable absent or empty once the .env file has been
\* loaded (a variable the environment already defines, even as empty, is not
\* overridden), the process fails at startup before serving any invocation or
\* opening any connection; otherwise the value is read once and every
\* connection uses it.
C9_Amended ==
    /\ pc = "boot" => last = NoInvocation /\ connTokens = {}
    /\ pc # "boot" =>
         IF EffectiveToken.none \/ EffectiveToken.v = ""
         THEN pc = "failed" /\ last = NoInvocation /\ connTokens = {}
         ELSE /\ pc # "failed"
              /\ QARNOT_TOKEN = EffectiveToken
              /\ connTokens \subseteq {EffectiveToken}
              /\ last # NoInvocation => connTokens = {EffectiveToken}

\* Started with the token in the .env file only, the server has served an
\* invocation over a connection that uses the file's token.
C9_Witness ==
    /\ osEnv.none
    /\ pc = "serving"
    /\ last.op = "list_tasks"
    /\ connTokens = {dotenvFile}

\* The running instances a status reports (none when the status or its
\* running-instances info is absent).
RunningInstances(status) ==
    IF status.none THEN <<>>
    ELSE IF status.v.running_instances_info.none THEN <<>>
    ELSE status.v.running_instances_info.v.per_running_instance_info

\* The active forwards of a status: <<i, j>> is the j-th forward of the
\* i-th running instance.
ForwardSlots(status) ==
    LET insts == RunningInstances(status) IN
    UNION {{<<i, j>> : j \in 1..Len(insts[i].active_forwards)} :
             i \in 1..Len(insts)}

\* Descriptor d describes the forward in slot sl of the status.
Describes(d, status, sl) ==
    LET inst == RunningInstances(status)[sl[1]]
        fwd == inst.active_forwards[sl[2]]
    IN  /\ d.instance_id = inst.instance_id
        /\ d.app_port = fwd.application_port
        /\ d.host = fwd.forwarder_host
        /\ d.port = fwd.forwarder_port

StatusReturned == last.op = "get_task_status" /\ last.result.kind = "return"
SshConnections == last.result.body.doc.members.ssh_connections

\* C4: get_task_status returns "No active SSH forwards" as ssh_connections
\* when no running instance reports an active forward (also when the status
\* or the running-instances info is absent), and otherwise a non-empty list
\* with one descriptor per active forward of every running instance; the
\* ssh_command of a descriptor is non-null only for application port 22.
C4_SshConnections ==
    StatusReturned =>
        /\ last.result.body.fmt = "json"
        /\ IF ForwardSlots(last.view) = {}
           THEN SshConnections = "No active SSH forwards"
           ELSE /\ SshConnections # "No active SSH forwards"
                /\ Len(SshConnections) = Cardinality(ForwardSlots(last.view))
                /\ \A sl \in ForwardSlots(last.view) :
                      \E k \in 1..Len(SshConnections) :
                          Describes(SshConnections[k], last.view, sl)
                /\ \A k \in 1..Len(SshConnections) :
                      /\ \E sl \in ForwardSlots(last.view) :
                            Describes(SshConnections[k], last.view, sl)
                      /\ SshConnections[k].ssh_command # [json |-> "null"]
                            <=> SshConnections[k].app_port = 22

\* A status whose second running instance has an SSH forward and one more.
C4_Witness ==
    /\ StatusReturned
    /\ Len(RunningInstances(last.view)) >= 2
    /\ Cardinality(ForwardSlots(last.view)) >= 2
    /\ \E k \in 1..Len(SshConnections) :
          SshConnections[k].ssh_command = [json |-> "null"]
    /\ \E k \in 1..Len(SshConnections) :
          SshConnections[k].ssh_command # [json |-> "null"]

ListReturned == last.op = "list_tasks" /\ last.result.kind = "return"
SummaryFields == {"uuid", "name", "state", "progress", "instance_count",
                  "running_instances", "creation_date", "end_date"}

\* C6: list_tasks returns the JSON array [] for an account without tasks;
\* for N tasks it returns N objects in the platform's order, each with the
\* eight documented fields, and end_date is "N/A" when the task has no end
\* date.
C6_ListTasks ==
    ListReturned =>
        LET doc == last.result.body.doc IN
        /\ last.result.body.fmt = "json"
        /\ last.view = <<>> => doc = <<>>
        /\ Len(doc) = Len(last.view)
        /\ \A i \in 1..Len(doc) :
              /\ doc[i].json = "object"
              /\ DOMAIN doc[i].members = SummaryFields
              /\ doc[i].members.uuid = last.view[i].uuid
              /\ doc[i].members.state = last.view[i].state
              /\ last.view[i].end_date.none => doc[i].members.end_date = "N/A"
              /\ ~last.view[i].end_date.none => doc[i].members.end_date # "N/A"

\* Two tasks are listed, one that has ended and one that has not.
C6_Witness ==
    /\ ListReturned
    /\ Len(last.view) >= 2
    /\ \E i \in 1..Len(last.view) : last.view[i].end_date.none
    /\ \E i \in 1..Len(last.view) : ~last.view[i].end_date.none

StreamReturned ==
    last.op \in {"get_task_stdout", "get_task_stderr"} /\ last.result.kind = "return"
StreamName == IF last.op = "get_task_stdout" THEN "stdout" ELSE "stderr"
Placeholder == IF last.op = "get_task_stdout" THEN "(no output)" ELSE "(no error output)"
CaptureEmpty == last.view.none \/ last.view.v = ""

\* The read is scoped to the instance exactly when an instance id was passed.
ScopedAsAsked ==
    LET call == last.calls[Len(last.calls)] IN
    /\ call.m = StreamName
    /\ IF last.args.instance_id.none
       THEN ~call.scoped
       ELSE call.scoped /\ call.instance = last.args.instance_id.v

\* C5 as stated: the placeholder is returned exactly when the capture is
\* empty or absent, the captured text is returned unmodified otherwise, and
\* the read is scoped to the instance when an instance id (0 included) is
\* passed and unscoped when it is omitted.
C5_Original ==
    StreamReturned =>
        /\ last.result.body.fmt = "text"
        /\ last.result.body.pieces = <<Placeholder>> <=> CaptureEmpty
        /\ ~CaptureEmpty => last.result.body.pieces = <<last.view.v>>
        /\ ScopedAsAsked

\* C5, amended: the placeholder is returned when the capture is empty or
\* absent and the captured text is returned unmodified otherwise, so the
\* placeholder's text is also what is returned for a capture that consists
\* of that very text; the read is scoped to the instance when an instance id
\* (0 included) is passed and unscoped when it is omitted.
C5_Amended ==
    StreamReturned =>
        /\ last.result.body.fmt = "text"
        /\ CaptureEmpty => last.result.body.pieces = <<Placeholder>>
        /\ ~CaptureEmpty => last.result.body.pieces = <<last.view.v>>
        /\ ScopedAsAsked

\* stdout of instance 0 was asked for and the captured text came back.
C5_Witness ==
    /\ StreamReturned
    /\ last.op = "get_task_stdout"
    /\ last.args.instance_id = Some(0)
    /\ last.view = Some("step 1 done")
    /\ last.result.body.pieces = <<"step 1 done">>

\* C7 as stated: list_buckets returns "No buckets found." for no bucket and
\* otherwise a JSON array of the bucket identifiers; list_bucket_files
\* returns "No files in bucket." for an empty bucket and otherwise a JSON
\* array of the file keys.
C7_Original ==
    /\ (last.op = "list_buckets" /\ last.result.kind = "return") =>
          IF last.view = <<>>
          THEN last.result.body = [fmt |-> "text", pieces |-> <<"No buckets found.">>]
          ELSE /\ last.result.body.fmt = "json"
               /\ Len(last.result.body.doc) = Len(last.view)
               /\ \A i \in 1..Len(last.view) :
                     last.result.body.doc[i] =
                        [json |-> "string", s |-> last.view[i].uuid]
    /\ (last.op = "list_bucket_files" /\ last.result.kind = "return") =>
          IF last.view = <<>>
          THEN last.result.body = [fmt |-> "text", pieces |-> <<"No files in bucket.">>]
          ELSE /\ last.result.body.fmt = "json"
               /\ Len(last.result.body.doc) = Len(last.view)
               /\ \A i \in 1..Len(last.view) :
                     last.result.body.doc[i] =
                        [json |-> "string", s |-> last.view[i].key]

\* C7, amended: list_buckets returns "No buckets found." for no bucket and
\* otherwise a JSON array with one object per bucket, whose only member
\* "name" is the bucket identifier; list_bucket_files returns "No files in
\* bucket." for an empty bucket and otherwise a JSON array of the file keys.
C7_Amended ==
    /\ (last.op = "list_buckets" /\ last.result.kind = "return") =>
          IF last.view = <<>>
          THEN last.result.body = [fmt |-> "text", pieces |-> <<"No buckets found.">>]
          ELSE /\ last.result.body.fmt = "json"
               /\ Len(last.result.body.doc) = Len(last.view)
               /\ \A i \in 1..Len(last.view) :
                     last.result.body.doc[i] =
                        [json |-> "object",
                         members |-> [name |-> last.view[i].uuid]]
    /\ (last.op = "list_bucket_files" /\ last.result.kind = "return") =>
          IF last.view = <<>>
          THEN last.result.body = [fmt |-> "text", pieces |-> <<"No files in bucket.">>]
          ELSE /\ last.result.body.fmt = "json"
               /\ Len(last.result.body.doc) = Len(last.view)
               /\ \A i \in 1..Len(last.view) :
                     last.result.body.doc[i] =
                        [json |-> "string", s |-> last.view[i].key]

\* Two buckets are listed.
C7_Witness ==
    /\ last.op = "list_buckets"
    /\ last.result.kind = "return"
    /\ Len(last.view) >= 2
    /\ last.result.body.fmt = "json"

\* A download_result step with arguments b (bucket), r (remote path) and
\* l (local path).
DownloadStep(b, r, l) ==
    /\ ToolStep
    /\ last'.op = "download_result"
    /\ last'.args = [bucket_name |-> b, remote_path |-> r, local_path |-> l]

BucketExists(b) == \E i \in 1..Len(buckets) : buckets[i] = b
FileExists(b, r) ==
    \E i \in 1..Len(BucketName) :
        BucketName[i] = b /\ \E j \in 1..(i - 1) : FileKeys[j] = r

\* C8: with an existing bucket, an existing remote file and a writable local
\* path, download_result leaves the file's bytes at the local path and
\* returns a confirmation that names the remote and the local path;
\* otherwise the collaborator's error is raised as it is and no confirmation
\* is returned.
C8_Download ==
    [][\A b \in BucketArgs, r \in RemotePaths, l \in LocalPaths :
          DownloadStep(b, r, l) =>
             IF BucketExists(b) /\ FileExists(b, r) /\ l = "/home/user/result.vtk"
             THEN /\ localFS'[l] = [none |-> FALSE, v |-> <<"bytes", b, r>>]
                  /\ last'.result.kind = "return"
                  /\ last'.result.body.fmt = "text"
                  /\ Contains(last'.result.body.pieces, r)
                  /\ Contains(last'.result.body.pieces, l)
             ELSE /\ last'.result.kind = "raise"
                  /\ IF ~BucketExists(b)
                     THEN last'.result.err = "MissingBucketException"
                     ELSE last'.result.err \in
                            (IF FileExists(b, r) THEN {} ELSE {"MissingFileException"})
                            \cup (IF l = "/home/user/result.vtk" THEN {}
                                  ELSE {"PermissionError"})]_vars

\* A file has been downloaded to the writable path.
C8_Witness ==
    /\ last.op = "download_result"
    /\ last.result.kind = "return"
    /\ localFS[last.args.local_path] =
          Some(FileBytes(last.args.bucket_name, last.args.remote_path))

=============================================================================
